---- MODULE Spec2Model ----
(***************************************************************************)
(* Model of elf::cs::ClientManager / ClientInfo / ClientInfo::State        *)
(* (src/src_cpp/elf/distri/client_manager.h).                              *)
(*                                                                         *)
(* Caller threads (Procs) run the public operations of one ClientManager   *)
(* concurrently.  Every std::mutex is a variable holding its owner, every  *)
(* lock_guard is an acquire step and a release at the end of its scope,    *)
(* and timer_() reads the environment clock `now`, which Tick advances     *)
(* between any two steps.                                                  *)
(***************************************************************************)
EXTENDS Integers, Sequences, FiniteSets, TLC

\* ---------------------------------------------------------------- bounds
NumProcs == 2          \* concurrent caller threads
NumIds == 3            \* distinct identities that ever send a heartbeat
NumPeers == 2          \* the same, where caller threads run concurrently
MaxTime == 2           \* the clock is observed on 0..MaxTime
SoloTime == 1          \* the same, for the single caller thread
MaxBeat == 1           \* entries in the `states` map of one heartbeat
NumVals == 2           \* distinct ThreadState payloads
\* ------------------------------------------------- configuration values
MaxCount == 2           \* counters drawn for alloc_type lie in -MaxCount..MaxCount
NumThreads == 1        \* options_.max_num_threads
MaxDelay == 1          \* options_.client_max_delay_sec
NumTypes == 2          \* options_.client_type_ratios.size()
RatioDen == 4          \* ratios are written in quarters: 2 is 0.5f, 4 is 1.0f
CLIENT_INVALID == -1
NoType == -1           \* ClientType type_ = -1
NoProc == 0            \* an unlocked std::mutex
NoId == 0

Procs == 1..NumProcs
Ids == 1..NumIds
Types == 0..(NumTypes - 1)
Slots == 0..(NumThreads - 1)
StateVals == 0..(NumVals - 1)

\* options_.client_type_ratios, as numerators over RatioDen; every value is
\* exactly representable as a float, and so is every quotient equal to one.
RatioChoices == { <<2, 2>>, <<4, 0>> }

\* A ThreadState: the slot it addresses and its (opaque, comparable) payload.
\* thread_id -1 and NumThreads are the out-of-range ids.
ThreadStates == [thread_id : -1..NumThreads, val : StateVals]
Heartbeats == { h \in SUBSET ThreadStates : Cardinality(h) <= MaxBeat }

VARIABLES
  now,                \* what timer_() returns
  fleet,              \* how many distinct identities the environment holds
  ratios, limits,     \* options_
  mutex_,             \* ClientManager::mutex_
  clients_,           \* keys of ClientManager::clients_
  num_clients_, n_,   \* ClientManager::num_clients_, n_
  rec_mutex,          \* ClientInfo::mutex_, per record
  type_, active_, last_update_,           \* ClientInfo fields, per record
  st_mutex,           \* ClientInfo::State::mutex_, per record and slot
  last_state_, last_state_update_,        \* ClientInfo::State fields
  pc,                 \* where each caller thread is
  arg,                \* per thread: the record its call is about
  frame,              \* locals of the call that holds mutex_
  hb_since,           \* history: per record, a changed heartbeat since its death
  snap                \* history: the counters before the latest death

vars == << now, fleet, ratios, limits, mutex_, clients_, num_clients_, n_, rec_mutex,
           type_, active_, last_update_, st_mutex, last_state_,
           last_state_update_, pc, arg, frame, hb_since, snap >>

registry == << fleet, ratios, limits, clients_, num_clients_, n_ >>
records == << type_, active_, last_update_, last_state_, last_state_update_ >>
locks == << mutex_, rec_mutex, st_mutex >>
history == << hb_since, snap >>

Min(S) == CHOOSE x \in S : \A y \in S : x <= y

RECURSIVE SumTo(_, _)
SumTo(f, k) == IF k = 0 THEN 0 ELSE f[k] + SumTo(f, k - 1)
\* the sum of num_clients_ over all types
Sum(f) == SumTo(f, NumTypes)

\* locals of updateStates / updateClients / getClient: `states` is what is left
\* of the heartbeat, `ts` the entry being applied, `changed` StateUpdate's
\* result, `todo` the records the sweep has not visited, `cur` the record it
\* is at, `status` updateActive's result, `t` alloc_type's result, `made` the
\* record this call created (not yet returned to anyone).  Kept with them
\* while `t` is live: `n0`, the n_ that alloc_type() was entered with, and
\* `full`, whether the type it chose stood at its limit then.  `touched`
\* records whether any StateUpdate of this call returned true.
NoFrame == [ states |-> {}, ts |-> [thread_id |-> 0, val |-> 0],
             changed |-> FALSE, todo |-> {}, cur |-> NoId, status |-> "NONE",
             t |-> NoType, made |-> NoId, n0 |-> 0, full |-> FALSE,
             touched |-> FALSE ]
\* `snap`: the record whose death was the last change of the counters, and
\* the counters and its type as they stood before that death.
NoSnap == [ who |-> NoId, n |-> 0, num |-> [t \in 1..NumTypes |-> 0],
            old |-> NoType ]

\* ------------------------------------------------------- pure functions

\* static_cast<float>(num_clients_[t]) / n_ < options_.client_type_ratios[t],
\* for n_ # 0.  Both sides are compared as exact rationals; dividing by a
\* negative n_ turns the inequality round (0 / n_ is -0.0f, not below 0.0f).
UnderRatio(num, n, rat, t) ==
  IF n > 0 THEN num[t + 1] * RatioDen < rat[t + 1] * n
           ELSE num[t + 1] * RatioDen > rat[t + 1] * n

\* num_clients_[t] < options_.client_type_limits[t]
UnderLimit(num, lim, t) == num[t + 1] < lim[t + 1]

\* alloc_type seeding an empty registry with the last type instead of type 0
alloc_type_seed_last(num, n, rat, lim) ==
  IF n = 0
    THEN [ t |-> NumTypes - 1, num |-> num, n |-> n, ok |-> TRUE ]
    ELSE
      LET pri0 == { t \in Types : UnderRatio(num, n, rat, t) }
          pri1 == { t \in Types : UnderLimit(num, lim, t) }
          t_choice == IF pri0 # {} THEN Min(pri0)
                      ELSE IF pri1 # {} THEN Min(pri1)
                      ELSE CLIENT_INVALID
      IN IF t_choice = CLIENT_INVALID
           THEN [ t |-> t_choice, num |-> num, n |-> n, ok |-> FALSE ]
           ELSE [ t |-> t_choice,
                  num |-> [num EXCEPT ![t_choice + 1] = @ + 1],
                  n |-> n + 1, ok |-> TRUE ]

\* alloc_type consulting the limits before the ratios
alloc_type_limit_first(num, n, rat, lim) ==
  IF n = 0
    THEN [ t |-> 0, num |-> num, n |-> n, ok |-> TRUE ]
    ELSE
      LET pri0 == { t \in Types : UnderRatio(num, n, rat, t) }
          pri1 == { t \in Types : UnderLimit(num, lim, t) }
          t_choice == IF pri1 # {} THEN Min(pri1)
                      ELSE IF pri0 # {} THEN Min(pri0)
                      ELSE CLIENT_INVALID
      IN IF t_choice = CLIENT_INVALID
           THEN [ t |-> t_choice, num |-> num, n |-> n, ok |-> FALSE ]
           ELSE [ t |-> t_choice,
                  num |-> [num EXCEPT ![t_choice + 1] = @ + 1],
                  n |-> n + 1, ok |-> TRUE ]

\* alloc_type falling back to type 0 where no type is eligible
alloc_type_fallback(num, n, rat, lim) ==
  IF n = 0
    THEN [ t |-> 0, num |-> num, n |-> n, ok |-> TRUE ]
    ELSE
      LET pri0 == { t \in Types : UnderRatio(num, n, rat, t) }
          pri1 == { t \in Types : UnderLimit(num, lim, t) }
          t_choice == IF pri0 # {} THEN Min(pri0)
                      ELSE IF pri1 # {} THEN Min(pri1)
                      ELSE 0
      IN [ t |-> t_choice,
           num |-> [num EXCEPT ![t_choice + 1] = @ + 1],
           n |-> n + 1, ok |-> TRUE ]

\* ClientManager::alloc_type: the type chosen and the counters afterwards;
\* ok is FALSE where assert(t_choice != CLIENT_INVALID) fails.
alloc_type(num, n, rat, lim) ==
  IF n = 0
    THEN [ t |-> 0, num |-> num, n |-> n, ok |-> TRUE ]
    ELSE
      LET pri0 == { t \in Types : UnderRatio(num, n, rat, t) }
          pri1 == { t \in Types : UnderLimit(num, lim, t) }
          t_choice == IF pri0 # {} THEN Min(pri0)
                      ELSE IF pri1 # {} THEN Min(pri1)
                      ELSE CLIENT_INVALID
      IN IF t_choice = CLIENT_INVALID
           THEN [ t |-> t_choice, num |-> num, n |-> n, ok |-> FALSE ]
           ELSE [ t |-> t_choice,
                  num |-> [num EXCEPT ![t_choice + 1] = @ + 1],
                  n |-> n + 1, ok |-> TRUE ]

\* dealloc_type forgetting n_
dealloc_type_keep_n(num, n, t) ==
  IF t >= 0 /\ t < NumTypes
    THEN [ num |-> [num EXCEPT ![t + 1] = @ - 1], n |-> n, ok |-> TRUE ]
    ELSE [ num |-> num, n |-> n, ok |-> FALSE ]

\* ClientManager::dealloc_type; ok is FALSE where its assert fails.
dealloc_type(num, n, t) ==
  IF t >= 0 /\ t < NumTypes
    THEN [ num |-> [num EXCEPT ![t + 1] = @ - 1], n |-> n - 1, ok |-> TRUE ]
    ELSE [ num |-> num, n |-> n, ok |-> FALSE ]

\* curr_timestamp - last_update_ < max_delay_sec_ on uint64_t: were the clock
\* behind last_update_ the difference would wrap to a huge value.
Within(curr, last, delay) == curr >= last /\ curr - last < delay

\* updateActive comparing with <= instead of <
updateActive_le(active, curr, last, delay) ==
  LET curr_active == curr >= last /\ curr - last <= delay
  IN IF active
       THEN IF ~curr_active
              THEN [ active |-> FALSE, status |-> "ALIVE2DEAD" ]
              ELSE [ active |-> TRUE, status |-> "ALIVE" ]
       ELSE IF curr_active
              THEN [ active |-> TRUE, status |-> "DEAD2ALIVE" ]
              ELSE [ active |-> FALSE, status |-> "DEAD" ]

\* ClientInfo::updateActive: the new flag and the ClientChange returned.
updateActive(active, curr, last, delay) ==
  LET curr_active == Within(curr, last, delay)
  IN IF active
       THEN IF ~curr_active
              THEN [ active |-> FALSE, status |-> "ALIVE2DEAD" ]
              ELSE [ active |-> TRUE, status |-> "ALIVE" ]
       ELSE IF curr_active
              THEN [ active |-> TRUE, status |-> "DEAD2ALIVE" ]
              ELSE [ active |-> FALSE, status |-> "DEAD" ]

\* StateUpdate storing the time elapsed instead of the time
StateUpdate_elapsed(state, stamp, ts, curr) ==
  IF state # ts
    THEN [ last_state |-> ts, last_state_update |-> curr - stamp,
           changed |-> TRUE ]
    ELSE [ last_state |-> state, last_state_update |-> stamp,
           changed |-> FALSE ]

\* StateUpdate stamping the slot and reporting a change on every call
StateUpdate_touch(state, stamp, ts, curr) ==
  [ last_state |-> ts, last_state_update |-> curr, changed |-> TRUE ]

\* ClientInfo::State::StateUpdate on one slot.
StateUpdate(state, stamp, ts, curr) ==
  IF state # ts
    THEN [ last_state |-> ts, last_state_update |-> curr, changed |-> TRUE ]
    ELSE [ last_state |-> state, last_state_update |-> stamp,
           changed |-> FALSE ]

\* ClientInfo::IsStuck
IsStuck(curr, last, delay) == ~Within(curr, last, delay)

Aborted == \E p \in Procs : pc[p] = "abort"

Start(threads, identities, lims) ==
  /\ now = 0
  /\ fleet = identities
  /\ pc = [p \in Procs |-> IF p <= threads THEN "idle" ELSE "off"]
  /\ ratios \in RatioChoices
  /\ limits \in lims
  /\ mutex_ = NoProc
  /\ clients_ = {}
  /\ num_clients_ = [t \in 1..NumTypes |-> 0]
  /\ n_ = 0
  /\ rec_mutex = [c \in Ids |-> NoProc]
  /\ type_ = [c \in Ids |-> NoType]
  /\ active_ = [c \in Ids |-> TRUE]
  /\ last_update_ = [c \in Ids |-> 0]
  /\ st_mutex = [c \in Ids |-> [s \in Slots |-> NoProc]]
  /\ last_state_ = [c \in Ids |-> [s \in Slots |-> 0]]
  /\ last_state_update_ = [c \in Ids |-> [s \in Slots |-> 0]]
  /\ arg = [p \in Procs |-> NoId]
  /\ frame = NoFrame
  /\ hb_since = [c \in Ids |-> FALSE]
  /\ snap = NoSnap

\* The time source: non-decreasing, advancing between any two steps.
Tick(horizon) ==
  /\ ~Aborted
  /\ now < horizon
  /\ now' = now + 1
  /\ UNCHANGED << registry, records, locks, pc, arg, frame, history >>

\* identities a call may name: every known one and one not seen before
\* (identities are opaque, so the unseen one is the next in Ids)
Unseen == IF Cardinality(clients_) < fleet
            THEN { Cardinality(clients_) + 1 } ELSE {}
Identities == clients_ \cup Unseen

\* std::lock_guard<std::mutex> lock(mutex_), the first statement of every
\* ClientManager operation: the caller enters when it gets the lock.
LockRegistry(p, to) ==
  /\ ~Aborted
  /\ pc[p] = "idle"
  /\ mutex_ = NoProc
  /\ mutex_' = p
  /\ pc' = [pc EXCEPT ![p] = to]

\* the end of the operation's lock_guard scope
Return(p) ==
  /\ mutex_' = NoProc
  /\ frame' = NoFrame
  /\ arg' = [arg EXCEPT ![p] = NoId]
  /\ pc' = [pc EXCEPT ![p] = "idle"]

\* the frame once the result of alloc_type() has been stored
Stored(f) == [f EXCEPT !.t = NoType, !.n0 = 0, !.full = FALSE]

\* ClientManager::_getClient(identity): find the record or create it,
\* ClientInfo's constructor and set_type(alloc_type()) included.  ok is FALSE
\* where alloc_type's assert fails.  The record is reachable by no other
\* thread before the caller returns.
GetClient(identity) ==
  IF identity \in clients_
    THEN /\ frame' = frame
         /\ UNCHANGED << registry, records, history >>
    ELSE
      LET r == alloc_type(num_clients_, n_, ratios, limits)
      IN /\ clients_' = clients_ \cup {identity}
         /\ active_' = [active_ EXCEPT ![identity] = TRUE]
         /\ last_update_' = [last_update_ EXCEPT ![identity] = now]
         /\ last_state_' = [last_state_ EXCEPT ![identity] = [s \in Slots |-> 0]]
         /\ last_state_update_' =
              [last_state_update_ EXCEPT ![identity] = [s \in Slots |-> now]]
         /\ type_' = [type_ EXCEPT ![identity] = r.t]
         /\ num_clients_' = r.num
         /\ n_' = r.n
         /\ frame' = [frame EXCEPT !.t = r.t, !.n0 = n_, !.made = identity,
                         !.full = r.ok /\ ~UnderLimit(num_clients_, limits, r.t)]
         /\ snap' = NoSnap
         /\ UNCHANGED << fleet, ratios, limits, hb_since >>

\* ---------------------------------------------- ClientManager::updateStates
UsLock(p) ==
  /\ LockRegistry(p, "us_get")
  /\ \E identity \in Identities, states \in Heartbeats :
       /\ arg' = [arg EXCEPT ![p] = identity]
       /\ frame' = [NoFrame EXCEPT !.states = states]
  /\ UNCHANGED << now, registry, records, rec_mutex, st_mutex, history >>

\* ClientInfo& info = _getClient(identity)
UsGetClient(p) ==
  /\ ~Aborted
  /\ pc[p] = "us_get"
  /\ GetClient(arg[p])
  /\ pc' = [pc EXCEPT ![p] = IF frame'.t = CLIENT_INVALID /\ frame'.made # NoId
                               THEN "abort" ELSE "us_loop"]
  /\ UNCHANGED << now, locks, arg >>

\* updateStates sweeping the sender's record only
UsLoop_own(p) ==
  /\ ~Aborted
  /\ pc[p] = "us_loop"
  /\ IF frame.states = {}
       THEN /\ frame' = [Stored(frame) EXCEPT !.todo = {arg[p]}]
            /\ pc' = [pc EXCEPT ![p] = "uc_loop"]
       ELSE \E ts \in frame.states :
              /\ frame' = [Stored(frame) EXCEPT !.ts = ts, !.states = @ \ {ts}]
              /\ pc' = [pc EXCEPT ![p] = "su_lock"]
  /\ UNCHANGED << now, registry, records, locks, arg, history >>

\* for (const auto& s : states): an unordered_map, visited in any order;
\* after the last entry, updateClients()
UsLoop(p) ==
  /\ ~Aborted
  /\ pc[p] = "us_loop"
  /\ IF frame.states = {}
       THEN /\ frame' = [Stored(frame) EXCEPT !.todo = clients_]
            /\ pc' = [pc EXCEPT ![p] = "uc_loop"]
       ELSE \E ts \in frame.states :
              /\ frame' = [Stored(frame) EXCEPT !.ts = ts, !.states = @ \ {ts}]
              /\ pc' = [pc EXCEPT ![p] = "su_lock"]
  /\ UNCHANGED << now, registry, records, locks, arg, history >>

\* stateUpdate dropping an entry whose thread_id is out of range
SuLock_skip(p) ==
  /\ ~Aborted
  /\ pc[p] = "su_lock"
  /\ rec_mutex[arg[p]] = NoProc
  /\ IF frame.ts.thread_id \in Slots
       THEN /\ rec_mutex' = [rec_mutex EXCEPT ![arg[p]] = p]
            /\ pc' = [pc EXCEPT ![p] = "st_lock"]
       ELSE /\ rec_mutex' = rec_mutex
            /\ pc' = [pc EXCEPT ![p] = "us_loop"]
  /\ UNCHANGED << now, registry, records, mutex_, st_mutex, arg, frame, history >>

\* ClientInfo::stateUpdate: lock_guard on the record, then the assert
SuLock(p) ==
  /\ ~Aborted
  /\ pc[p] = "su_lock"
  /\ rec_mutex[arg[p]] = NoProc
  /\ rec_mutex' = [rec_mutex EXCEPT ![arg[p]] = p]
  /\ pc' = [pc EXCEPT ![p] = IF frame.ts.thread_id \in Slots
                               THEN "st_lock" ELSE "abort"]
  /\ UNCHANGED << now, registry, records, mutex_, st_mutex, arg, frame, history >>

\* StateUpdate reaching back for the record's lock before the slot's
StLock_upward(p) ==
  /\ ~Aborted
  /\ pc[p] = "st_lock"
  /\ rec_mutex[arg[p]] = NoProc
  /\ st_mutex[arg[p]][frame.ts.thread_id] = NoProc
  /\ st_mutex' = [st_mutex EXCEPT ![arg[p]][frame.ts.thread_id] = p]
  /\ pc' = [pc EXCEPT ![p] = "st_body"]
  /\ UNCHANGED << now, registry, records, mutex_, rec_mutex, arg, frame, history >>

\* ClientInfo::State::StateUpdate: lock_guard on the slot
StLock(p) ==
  /\ ~Aborted
  /\ pc[p] = "st_lock"
  /\ st_mutex[arg[p]][frame.ts.thread_id] = NoProc
  /\ st_mutex' = [st_mutex EXCEPT ![arg[p]][frame.ts.thread_id] = p]
  /\ pc' = [pc EXCEPT ![p] = "st_body"]
  /\ UNCHANGED << now, registry, records, mutex_, rec_mutex, arg, frame, history >>

\* ClientInfo::State::StateUpdate: compare, store, return; the slot's
\* lock_guard ends
StBody(p) ==
  /\ ~Aborted
  /\ pc[p] = "st_body"
  /\ LET c == arg[p]
         s == frame.ts.thread_id
         r == StateUpdate(last_state_[c][s], last_state_update_[c][s],
                          frame.ts.val, now)
     IN /\ last_state_' = [last_state_ EXCEPT ![c][s] = r.last_state]
        /\ last_state_update_' =
             [last_state_update_ EXCEPT ![c][s] = r.last_state_update]
        /\ frame' = [frame EXCEPT !.changed = r.changed,
                                   !.touched = @ \/ r.changed]
        /\ st_mutex' = [st_mutex EXCEPT ![c][s] = NoProc]
  /\ pc' = [pc EXCEPT ![p] = "su_fin"]
  /\ UNCHANGED << now, registry, type_, active_, last_update_, mutex_,
                  rec_mutex, arg, history >>

\* stateUpdate refreshing last_update_ whatever StateUpdate returned
SuFin_always(p) ==
  /\ ~Aborted
  /\ pc[p] = "su_fin"
  /\ last_update_' = [last_update_ EXCEPT ![arg[p]] = now]
  /\ hb_since' = [hb_since EXCEPT ![arg[p]] = ~active_[arg[p]]]
  /\ rec_mutex' = [rec_mutex EXCEPT ![arg[p]] = NoProc]
  /\ frame' = [frame EXCEPT !.changed = FALSE, !.ts = NoFrame.ts]
  /\ pc' = [pc EXCEPT ![p] = "us_loop"]
  /\ UNCHANGED << now, registry, type_, active_, last_state_,
                  last_state_update_, mutex_, st_mutex, arg, snap >>

\* ClientInfo::stateUpdate: last_update_ on a change; the record's
\* lock_guard ends
SuFin(p) ==
  /\ ~Aborted
  /\ pc[p] = "su_fin"
  /\ IF frame.changed
       THEN /\ last_update_' = [last_update_ EXCEPT ![arg[p]] = now]
            /\ hb_since' = [hb_since EXCEPT ![arg[p]] = ~active_[arg[p]]]
       ELSE UNCHANGED << last_update_, hb_since >>
  /\ rec_mutex' = [rec_mutex EXCEPT ![arg[p]] = NoProc]
  /\ frame' = [frame EXCEPT !.changed = FALSE, !.ts = NoFrame.ts]
  /\ pc' = [pc EXCEPT ![p] = "us_loop"]
  /\ UNCHANGED << now, registry, type_, active_, last_state_,
                  last_state_update_, mutex_, st_mutex, arg, snap >>

\* --------------------------------------------- ClientManager::updateClients
\* for (auto& p : clients_): an unordered_map, visited in any order; after
\* the last record updateStates returns and its lock_guard ends
UcLoop(p) ==
  /\ ~Aborted
  /\ pc[p] = "uc_loop"
  /\ IF frame.todo = {}
       THEN Return(p)
       ELSE /\ \E c \in frame.todo :
                 frame' = [frame EXCEPT !.cur = c, !.todo = @ \ {c},
                                        !.status = "NONE"]
            /\ pc' = [pc EXCEPT ![p] = "ua_lock"]
            /\ UNCHANGED << mutex_, arg >>
  /\ UNCHANGED << now, registry, records, rec_mutex, st_mutex, history >>

\* lock_guard of a ClientInfo member called by the sweep on record frame.cur
LockCur(p, from, to) ==
  /\ ~Aborted
  /\ pc[p] = from
  /\ rec_mutex[frame.cur] = NoProc
  /\ rec_mutex' = [rec_mutex EXCEPT ![frame.cur] = p]
  /\ pc' = [pc EXCEPT ![p] = to]

\* c.updateActive()
UaLock(p) ==
  /\ LockCur(p, "ua_lock", "ua_body")
  /\ UNCHANGED << now, registry, records, mutex_, st_mutex, arg, frame, history >>

\* the sweep allocating again for a record it finds still dead
UaBody_realloc_dead(p) ==
  /\ ~Aborted
  /\ pc[p] = "ua_body"
  /\ LET c == frame.cur
         r == updateActive(active_[c], now, last_update_[c], MaxDelay)
     IN /\ active_' = [active_ EXCEPT ![c] = r.active]
        /\ frame' = [frame EXCEPT !.status = r.status]
        /\ hb_since' = IF r.status \in {"ALIVE2DEAD", "DEAD2ALIVE"}
                         THEN [hb_since EXCEPT ![c] = FALSE] ELSE hb_since
        /\ rec_mutex' = [rec_mutex EXCEPT ![c] = NoProc]
        /\ pc' = [pc EXCEPT ![p] =
                    CASE r.status = "ALIVE2DEAD" -> "ty_lock"
                      [] r.status \in {"DEAD2ALIVE", "DEAD"} -> "set_lock"
                      [] OTHER -> "uc_loop"]
  /\ UNCHANGED << now, registry, type_, last_update_, last_state_,
                  last_state_update_, mutex_, st_mutex, arg, snap >>

UaBody(p) ==
  /\ ~Aborted
  /\ pc[p] = "ua_body"
  /\ LET c == frame.cur
         r == updateActive(active_[c], now, last_update_[c], MaxDelay)
     IN /\ active_' = [active_ EXCEPT ![c] = r.active]
        /\ frame' = [frame EXCEPT !.status = r.status]
        /\ hb_since' = IF r.status \in {"ALIVE2DEAD", "DEAD2ALIVE"}
                         THEN [hb_since EXCEPT ![c] = FALSE] ELSE hb_since
        /\ rec_mutex' = [rec_mutex EXCEPT ![c] = NoProc]
        /\ pc' = [pc EXCEPT ![p] =
                    CASE r.status = "ALIVE2DEAD" -> "ty_lock"
                      [] r.status = "DEAD2ALIVE" -> "set_lock"
                      [] OTHER -> "uc_loop"]
  /\ UNCHANGED << now, registry, type_, last_update_, last_state_,
                  last_state_update_, mutex_, st_mutex, arg, snap >>

\* dealloc_type(c.type()): c.type() under the record's lock_guard ...
TyLock(p) ==
  /\ LockCur(p, "ty_lock", "ty_body")
  /\ UNCHANGED << now, registry, records, mutex_, st_mutex, arg, frame, history >>

\* ... then the counters
TyBody(p) ==
  /\ ~Aborted
  /\ pc[p] = "ty_body"
  /\ LET c == frame.cur
         r == dealloc_type(num_clients_, n_, type_[c])
     IN /\ rec_mutex' = [rec_mutex EXCEPT ![c] = NoProc]
        /\ num_clients_' = r.num
        /\ n_' = r.n
        /\ snap' = [ who |-> c, n |-> n_, num |-> num_clients_,
                     old |-> type_[c] ]
        /\ pc' = [pc EXCEPT ![p] = IF r.ok THEN "uc_loop" ELSE "abort"]
  /\ UNCHANGED << now, fleet, ratios, limits, clients_, records, mutex_,
                  st_mutex, arg, frame, hb_since >>

\* c.set_type(alloc_type()): the argument (the counters are this thread's,
\* under mutex_), then set_type's lock_guard on the record ...
SetLock(p) ==
  /\ LET c == frame.cur
         r == alloc_type(num_clients_, n_, ratios, limits)
     IN IF r.ok
          THEN /\ LockCur(p, "set_lock", "set_body")
               /\ num_clients_' = r.num
               /\ n_' = r.n
               /\ frame' = [frame EXCEPT !.t = r.t, !.n0 = n_,
                              !.full = ~UnderLimit(num_clients_, limits, r.t)]
               /\ snap' = IF snap.who = c THEN snap ELSE NoSnap
          ELSE /\ ~Aborted
               /\ pc[p] = "set_lock"
               /\ pc' = [pc EXCEPT ![p] = "abort"]
               /\ UNCHANGED << num_clients_, n_, frame, snap, rec_mutex >>
  /\ UNCHANGED << now, fleet, ratios, limits, clients_, records, mutex_,
                  st_mutex, arg, hb_since >>

\* ... and the store
SetBody(p) ==
  /\ ~Aborted
  /\ pc[p] = "set_body"
  /\ LET c == frame.cur
     IN /\ type_' = [type_ EXCEPT ![c] = frame.t]
        /\ rec_mutex' = [rec_mutex EXCEPT ![c] = NoProc]
  /\ frame' = Stored(frame)
  /\ snap' = NoSnap
  /\ pc' = [pc EXCEPT ![p] = "uc_loop"]
  /\ UNCHANGED << now, registry, active_, last_update_, last_state_,
                  last_state_update_, mutex_, st_mutex, arg, hb_since >>

\* ------------------------------------------------ the other registry calls
\* ClientManager::getClient
GcLock(p) ==
  /\ LockRegistry(p, "gc_body")
  /\ \E identity \in Identities : arg' = [arg EXCEPT ![p] = identity]
  /\ UNCHANGED << now, registry, records, rec_mutex, st_mutex, frame, history >>

GcBody(p) ==
  /\ ~Aborted
  /\ pc[p] = "gc_body"
  /\ GetClient(arg[p])
  /\ pc' = [pc EXCEPT ![p] = IF frame'.t = CLIENT_INVALID /\ frame'.made # NoId
                               THEN "abort" ELSE "gc_ret"]
  /\ UNCHANGED << now, locks, arg >>

\* ClientManager::getClientC
GccLock(p) ==
  /\ LockRegistry(p, "gc_ret")
  /\ \E identity \in Identities : arg' = [arg EXCEPT ![p] = identity]
  /\ UNCHANGED << now, registry, records, rec_mutex, st_mutex, frame, history >>

\* ClientManager::setClientTypeRatio
RatioLock(p) ==
  /\ LockRegistry(p, "ratio_body")
  /\ UNCHANGED << now, registry, records, rec_mutex, st_mutex, arg, frame, history >>

RatioBody(p) ==
  /\ ~Aborted
  /\ pc[p] = "ratio_body"
  /\ \E ratio \in RatioChoices : ratios' = ratio
  /\ Return(p)
  /\ UNCHANGED << now, fleet, limits, clients_, num_clients_, n_, records,
                  rec_mutex, st_mutex, history >>

\* ClientManager::info
InfoLock(p) ==
  /\ LockRegistry(p, "gc_ret")
  /\ UNCHANGED << now, registry, records, rec_mutex, st_mutex, arg, frame, history >>

\* the return of getClient, getClientC and info: the lock_guard ends
RegRet(p) ==
  /\ ~Aborted
  /\ pc[p] = "gc_ret"
  /\ Return(p)
  /\ UNCHANGED << now, registry, records, rec_mutex, st_mutex, history >>

\* --------------------------------------------------- ClientInfo accessors
\* a record some earlier call returned to this thread
Published == clients_ \ {frame.made}

\* type(), IsActive(), IsStuck(), threads(), called on a held reference:
\* lock_guard on the record ...
AccLock(p) ==
  /\ ~Aborted
  /\ pc[p] = "idle"
  /\ \E c \in Published :
       /\ rec_mutex[c] = NoProc
       /\ rec_mutex' = [rec_mutex EXCEPT ![c] = p]
       /\ arg' = [arg EXCEPT ![p] = c]
  /\ pc' = [pc EXCEPT ![p] = "acc_body"]
  /\ UNCHANGED << now, registry, records, mutex_, st_mutex, frame, history >>

\* ... the read, and the lock_guard ends
AccRet(p) ==
  /\ ~Aborted
  /\ pc[p] = "acc_body"
  /\ rec_mutex' = [rec_mutex EXCEPT ![arg[p]] = NoProc]
  /\ arg' = [arg EXCEPT ![p] = NoId]
  /\ pc' = [pc EXCEPT ![p] = "idle"]
  /\ UNCHANGED << now, registry, records, mutex_, st_mutex, frame, history >>

\* ------------------------------------------------------------------ Next
\* updateStates, from its lock_guard to its return
Beat(p) ==
  \/ UsLock(p) \/ UsGetClient(p) \/ UsLoop(p)
  \/ SuLock(p) \/ StLock(p) \/ StBody(p) \/ SuFin(p)
  \/ UcLoop(p) \/ UaLock(p) \/ UaBody(p)
  \/ TyLock(p) \/ TyBody(p)
  \/ SetLock(p) \/ SetBody(p)

\* getClient
Fetch(p) == GcLock(p) \/ GcBody(p)

\* getClientC, setClientTypeRatio, info and the record accessors
Other(p) ==
  \/ GccLock(p) \/ RatioLock(p) \/ RatioBody(p) \/ InfoLock(p) \/ RegRet(p)
  \/ AccLock(p) \/ AccRet(p)

Step(p) == Beat(p) \/ Fetch(p) \/ Other(p)

Next ==
  \/ Tick(MaxTime)
  \/ \E p \in Procs : Step(p)

\* records come from heartbeats only
NextSolo ==
  \/ Tick(SoloTime)
  \/ \E p \in Procs : Beat(p) \/ Other(p)

\* caller threads running concurrently
Init == Start(NumProcs, NumPeers, { <<1, 1>> })
Spec == Init /\ [][Next]_vars

\* one caller thread sending heartbeats, a larger fleet
InitSolo == Start(1, NumIds, { <<100, 100>>, <<1, 100>> })
SpecSolo == InitSolo /\ [][NextSolo]_vars

\* alloc_type() on its own: a sweep that has just seen record 1 come back to
\* life and is about to run c.set_type(alloc_type()), with the counters, the
\* ratios and the limits drawn from bounded sets (n_ is the sum of
\* num_clients_, as it is after every alloc_type and dealloc_type).
AllocRatios == {0, 1, 2, 4} \X {0, 1, 2, 4}
AllocLimits == (0..MaxCount) \X (0..MaxCount)

InitAlloc ==
  /\ now = 0
  /\ fleet = 1
  /\ pc = [p \in Procs |-> IF p = 1 THEN "set_lock" ELSE "off"]
  /\ ratios \in AllocRatios
  /\ limits \in AllocLimits
  /\ mutex_ = 1
  /\ clients_ = {1}
  /\ num_clients_ \in [1..NumTypes -> (-MaxCount)..MaxCount]
  /\ n_ = Sum(num_clients_)
  /\ rec_mutex = [c \in Ids |-> NoProc]
  /\ type_ = [c \in Ids |-> IF c = 1 THEN 0 ELSE NoType]
  /\ active_ = [c \in Ids |-> TRUE]
  /\ last_update_ = [c \in Ids |-> 0]
  /\ st_mutex = [c \in Ids |-> [s \in Slots |-> NoProc]]
  /\ last_state_ = [c \in Ids |-> [s \in Slots |-> 0]]
  /\ last_state_update_ = [c \in Ids |-> [s \in Slots |-> 0]]
  /\ arg = [p \in Procs |-> IF p = 1 THEN 1 ELSE NoId]
  /\ frame = [NoFrame EXCEPT !.cur = 1, !.status = "DEAD2ALIVE"]
  /\ hb_since = [c \in Ids |-> FALSE]
  /\ snap = NoSnap

NextAlloc == \E p \in Procs : SetLock(p) \/ SetBody(p)
SpecAlloc == InitAlloc /\ [][NextAlloc]_vars

\* =================================================================== claims

ActiveRecords == { c \in clients_ : active_[c] }

\* C1: whenever no thread is inside a registry-locked section, n_ equals the
\* sum of num_clients_ over all types and both equal the number of records
\* whose active_ flag is set.
C1_CountsMatchActive ==
  mutex_ = NoProc =>
    /\ n_ = Sum(num_clients_)
    /\ n_ = Cardinality(ActiveRecords)

\* C2: with ratios [0.5, 0.5], limits [100, 100] and a clock that stands
\* still, three heartbeats from three unseen identities leave the records
\* with types [0, 1, 0] in creation order.
C2_RatioSteering ==
  ( /\ ratios = <<2, 2>>
    /\ limits = <<100, 100>>
    /\ now = 0
    /\ mutex_ = NoProc
    /\ clients_ = {1, 2, 3} )
  => << type_[1], type_[2], type_[3] >> = <<0, 1, 0>>

\* C3: with ratios [1.0, 0.0] and limits [1, 100] the first new client gets
\* type 0 and the second, created while the first is active, gets type 1.
C3_LimitEnforcement ==
  ( /\ ratios = <<4, 0>>
    /\ limits = <<1, 100>>
    /\ now = 0
    /\ frame.made = 2 )
  => ( type_[1] = 0 /\ type_[2] = 1 )

\* C4: an allocation entered with n_ # 0 never chooses a type whose count
\* already stood at its limit.
C4_NeverAtLimit ==
  ( frame.t \in Types /\ frame.n0 # 0 ) => ~frame.full

\* C5: every allocation entered with n_ = 0 returns type 0, whatever the
\* ratios and limits; the first record ever created gets type 0.
C5_Bootstrap ==
  /\ ( frame.t # NoType /\ frame.n0 = 0 ) => frame.t = 0
  /\ frame.made = 1 => type_[1] = 0

C5_Witness ==
  /\ frame.made = 2
  /\ frame.n0 = 0
  /\ frame.t = 0
  /\ type_[2] = 0
  /\ ratios = <<2, 2>>

\* the step in which thread p's sweep runs updateActive on record c
SweepOf(p, c) ==
  /\ pc[p] = "ua_body"
  /\ pc'[p] # "ua_body"
  /\ frame.cur = c

Emits(c, status, flag) == frame'.status = status /\ active_'[c] = flag

\* the first three clauses of C6: an active record inside its delay stays
\* ALIVE, one at or past it goes ALIVE2DEAD, and a dead record that no
\* changed heartbeat has reached since stays DEAD
C6_Common(p, c) ==
  /\ ( active_[c] /\ Within(now, last_update_[c], MaxDelay) )
       => Emits(c, "ALIVE", TRUE)
  /\ ( active_[c] /\ ~Within(now, last_update_[c], MaxDelay) )
       => Emits(c, "ALIVE2DEAD", FALSE)
  /\ ( ~active_[c] /\ ~hb_since[c] ) => Emits(c, "DEAD", FALSE)

\* C6 as stated: ... and the next sweep after a changed heartbeat reached a
\* dead record emits DEAD2ALIVE and sets the flag.
C6_AsStated ==
  [][ \A p \in Procs, c \in Ids :
        SweepOf(p, c) =>
          /\ C6_Common(p, c)
          /\ ( ~active_[c] /\ hb_since[c] ) => Emits(c, "DEAD2ALIVE", TRUE)
    ]_vars

\* C6, amended: ... and a sweep after a changed heartbeat reached a dead
\* record emits DEAD2ALIVE and sets the flag if it runs within the delay of
\* that heartbeat, and DEAD with no flag change if it runs later.
C6_LivenessMachine ==
  [][ \A p \in Procs, c \in Ids :
        SweepOf(p, c) =>
          /\ C6_Common(p, c)
          /\ ( ~active_[c] /\ hb_since[c]
                 /\ Within(now, last_update_[c], MaxDelay) )
               => Emits(c, "DEAD2ALIVE", TRUE)
          /\ ( ~active_[c] /\ hb_since[c]
                 /\ ~Within(now, last_update_[c], MaxDelay) )
               => Emits(c, "DEAD", FALSE)
    ]_vars

C6_Witness ==
  \E p \in Procs :
    /\ pc[p] = "set_lock"
    /\ frame.status = "DEAD2ALIVE"
    /\ active_[frame.cur]
    /\ now = last_update_[frame.cur] + MaxDelay - 1

Bump(num, t, d) == [num EXCEPT ![t + 1] = @ + d]

\* C7: when a record dies and revives with no other allocation or
\* deallocation in between, n_ after the revival is n_ before the death, and
\* num_clients_ is what it was before the death with the record moved from
\* its old type to the newly chosen one.
C7_ReallocOnRevival ==
  \A p \in Procs :
    ( pc[p] = "set_body" /\ snap.who = frame.cur ) =>
      /\ n_ = snap.n
      /\ num_clients_ = Bump(Bump(snap.num, snap.old, -1), frame.t, 1)

C7_Witness ==
  \E p \in Procs :
    /\ pc[p] = "set_body"
    /\ snap.who = frame.cur
    /\ frame.t # snap.old

\* C8: last_update_ of every record and last_state_update_ of every slot
\* never decrease.
C8_Monotonic ==
  [][ \A c \in clients_ :
        /\ last_update_'[c] >= last_update_[c]
        /\ \A s \in Slots :
             last_state_update_'[c][s] >= last_state_update_[c][s]
    ]_vars

C8_Witness ==
  \E p \in Procs :
    /\ pc[p] = "su_fin"
    /\ frame.changed
    /\ last_state_update_[arg[p]][frame.ts.thread_id] > last_update_[arg[p]]

\* C9: StateUpdate leaves the slot holding the value it was given, so a
\* second call with the same value finds it equal: it returns false and
\* last_state_, last_state_update_ and the record's last_update_ stay as
\* they are, whatever the clock did in between.
C9_Idempotent ==
  [][ \A p \in Procs :
        /\ ( pc[p] = "st_body" /\ pc'[p] = "su_fin" ) =>
             LET c == arg[p]
                 s == frame.ts.thread_id
             IN /\ last_state_'[c][s] = frame.ts.val
                /\ last_state_[c][s] = frame.ts.val =>
                     /\ ~frame'.changed
                     /\ last_state_' = last_state_
                     /\ last_state_update_' = last_state_update_
        /\ ( pc[p] = "su_fin" /\ pc'[p] # "su_fin" /\ ~frame.changed ) =>
             last_update_' = last_update_
    ]_vars

C9_Witness ==
  \E p \in Procs :
    /\ pc[p] = "su_fin"
    /\ ~frame.changed
    /\ last_state_[arg[p]][frame.ts.thread_id] = 1
    /\ now > last_state_update_[arg[p]][frame.ts.thread_id]

\* the locks a thread holds
HoldsRegistry(p) == mutex_ = p
HeldRecords(p) == { c \in Ids : rec_mutex[c] = p }
HeldSlots(p) == { cs \in Ids \X Slots : st_mutex[cs[1]][cs[2]] = p }

\* the owner of the lock thread p stands before, NoProc if it is free or p
\* stands before none
Blocker(p) ==
  CASE pc[p] = "su_lock" -> rec_mutex[arg[p]]
    [] pc[p] = "st_lock" -> st_mutex[arg[p]][frame.ts.thread_id]
    [] pc[p] \in {"ua_lock", "ty_lock", "set_lock"} -> rec_mutex[frame.cur]
    [] OTHER -> NoProc

InCall(p) == pc[p] \notin {"idle", "off"}

\* C10: locks are taken in the order registry, record, slot: a thread takes
\* the registry lock holding nothing, a record lock holding no record and no
\* slot lock, a slot lock holding no other slot lock; outside a call it holds
\* nothing; and every thread inside a call can take its next step or stands
\* before a lock whose owner can.
C10_LockHierarchy ==
  /\ [][ \A p \in Procs :
           /\ ( mutex_' = p /\ mutex_ # p ) =>
                HeldRecords(p) = {} /\ HeldSlots(p) = {}
           /\ \A c \in Ids :
                ( rec_mutex'[c] = p /\ rec_mutex[c] # p ) =>
                  HeldRecords(p) = {} /\ HeldSlots(p) = {}
           /\ \A c \in Ids, s \in Slots :
                ( st_mutex'[c][s] = p /\ st_mutex[c][s] # p ) =>
                  HeldSlots(p) = {}
      ]_vars
  /\ [] ( ~Aborted =>
            \A p \in Procs :
              /\ Cardinality(HeldRecords(p)) <= 1
              /\ ~InCall(p) =>
                   ~HoldsRegistry(p) /\ HeldRecords(p) = {} /\ HeldSlots(p) = {}
              /\ InCall(p) =>
                   \/ ENABLED Step(p)
                   \/ /\ Blocker(p) \notin {NoProc, p}
                      /\ InCall(Blocker(p))
                      /\ ENABLED Step(Blocker(p)) )

C10_Witness ==
  \E p, q \in Procs :
    /\ pc[p] = "st_body"
    /\ HoldsRegistry(p) /\ HeldRecords(p) # {} /\ HeldSlots(p) # {}
    /\ pc[q] = "acc_body"
    /\ HeldRecords(q) # {}

\* C11: stateUpdate with a thread_id outside [0, threads_.size()), negative
\* or too large, always fails its assert, and at the fault that call has
\* changed no slot's last_state_ or last_state_update_, nor the record's
\* last_update_, active_ or type_, nor clients_, num_clients_ or n_; no
\* thread ever gets past the assert with such an id.
C11_OutOfRangeFaults ==
  [][ \A p \in Procs :
        /\ ( pc[p] = "su_lock" /\ pc'[p] # "su_lock"
               /\ frame.ts.thread_id \notin Slots ) =>
             /\ pc'[p] = "abort"
             /\ records' = records
             /\ registry' = registry
        /\ pc'[p] \in {"st_lock", "st_body", "su_fin"} =>
             frame'.ts.thread_id \in Slots
    ]_vars

C11_Witness ==
  \E p \in Procs :
    /\ pc[p] = "abort"
    /\ frame.ts.thread_id = -1
    /\ ~active_[arg[p]]
    /\ now > last_update_[arg[p]]

\* C12: a lookup (getClientC or getClient) of an identity that never sent a
\* heartbeat leaves clients_, num_clients_, n_ and every record as they were
\* and returns with the identity still absent; clients_ grows only inside
\* updateStates.
C12_LookupCreatesNothing ==
  [][ \A p \in Procs :
        /\ ( pc[p] \in {"gc_body", "gc_ret"} /\ arg[p] \in Ids
               /\ arg[p] \notin clients_ ) =>
             /\ registry' = registry
             /\ records' = records
        /\ ( mutex_ = p /\ clients_' # clients_ ) => pc[p] = "us_get"
    ]_vars

\* C13: every alloc_type() that returns a type, the one entered with n_ = 0
\* included, raises num_clients_ of that type by one and n_ by one and
\* leaves the other types' counts as they were.
C13_AllocCounts ==
  [][ ( frame.t = NoType /\ frame'.t \in Types ) =>
        /\ n_' = n_ + 1
        /\ num_clients_' = Bump(num_clients_, frame'.t, 1)
    ]_vars

\* the first type from t on that lies in S, CLIENT_INVALID if there is none
RECURSIVE FirstFrom(_, _)
FirstFrom(t, S) ==
  IF t >= NumTypes THEN CLIENT_INVALID
  ELSE IF t \in S THEN t ELSE FirstFrom(t + 1, S)

\* num[t] / n < rat[t] / RatioDen for n # 0, both sides multiplied by the
\* positive RatioDen * n * n
RatioShort(num, n, rat) ==
  { t \in Types : num[t + 1] * n * RatioDen < rat[t + 1] * n * n }
LimitShort(num, lim) == { t \in Types : num[t + 1] < lim[t + 1] }

\* the reference choice: the lowest type under its ratio if there is one,
\* otherwise the lowest type under its limit
RefChoice(num, n, rat, lim) ==
  IF RatioShort(num, n, rat) # {}
    THEN FirstFrom(0, RatioShort(num, n, rat))
    ELSE FirstFrom(0, LimitShort(num, lim))

\* C14: an alloc_type() entered with n_ # 0 returns the lowest type t with
\* num_clients_[t] / n_ < ratios[t] if there is one, otherwise the lowest
\* type t with num_clients_[t] < limits[t], for every combination of
\* counters, ratios and limits drawn.
C14_AllocChoice ==
  [][ ( frame.t = NoType /\ frame'.t \in Types /\ n_ # 0 ) =>
        frame'.t = RefChoice(num_clients_, n_, ratios, limits)
    ]_vars

\* an allocation decided by the limits: the type chosen is not the lowest
\* one, and no type was under its ratio
C14_Witness ==
  \E p \in Procs :
    /\ pc[p] = "set_body"
    /\ frame.n0 > 0
    /\ frame.t = 1
    /\ RatioShort(Bump(num_clients_, frame.t, -1), frame.n0, ratios) = {}

\* a step in which alloc_type() returns a type
AllocRan == frame.t = NoType /\ frame'.t \in Types
\* a step in which a record is created, comes back to life, dies
Created == clients_' # clients_
Revived == \E c \in clients_ : ~active_[c] /\ active_'[c]
Died == \E c \in clients_ : active_[c] /\ ~active_'[c]

\* C15: alloc_type() runs in the step that creates a record and once after
\* each DEAD2ALIVE, and in no other step; dealloc_type() of the record's
\* type runs once after each ALIVE2DEAD, and in no other step; the counters
\* change in no step but these.
C15_AllocOnEvents ==
  [][ \A p \in Procs :
        /\ Created => AllocRan
        /\ ( pc'[p] = "set_lock" /\ pc[p] # "set_lock" ) <=>
             ( pc[p] = "ua_body" /\ Revived )
        /\ ( pc[p] = "set_lock" /\ pc'[p] # "set_lock" ) =>
             ( AllocRan /\ pc'[p] = "set_body" )
        /\ ( pc[p] = "set_body" /\ pc'[p] # "set_body" ) =>
             ( pc'[p] = "uc_loop" /\ ~AllocRan )
        /\ AllocRan => ( Created \/ \E q \in Procs : pc[q] = "set_lock" )
        /\ ( pc'[p] = "ty_lock" /\ pc[p] # "ty_lock" ) <=>
             ( pc[p] = "ua_body" /\ Died )
        /\ ( pc[p] = "ty_lock" /\ pc'[p] # "ty_lock" ) =>
             ( pc'[p] = "ty_body" /\ n_' = n_ /\ num_clients_' = num_clients_ )
        /\ ( pc[p] = "ty_body" /\ pc'[p] # "ty_body" ) =>
             /\ pc'[p] = "uc_loop"
             /\ n_' = n_ - 1
             /\ num_clients_' = Bump(num_clients_, type_[frame.cur], -1)
        /\ ( n_' # n_ \/ num_clients_' # num_clients_ ) =>
             ( AllocRan \/ \E q \in Procs : pc[q] = "ty_body" )
    ]_vars

C15_Witness ==
  \E p \in Procs :
    /\ pc[p] = "set_body"
    /\ frame.status = "DEAD2ALIVE"
    /\ frame.cur = arg[p]
    /\ frame.touched
    /\ n_ = frame.n0 + 1

\* C16: last_update_ of an existing record changes only where stateUpdate
\* saw StateUpdate return true; a thread state equal to the stored one makes
\* StateUpdate return false; so the sweep of a heartbeat none of whose
\* thread states differed finds last_update_ as it was: it emits ALIVE2DEAD
\* for its own record if that is active and at or past its delay, and DEAD
\* if that is dead.
C16_OnlyChangeRefreshes ==
  [][ \A p \in Procs :
        /\ \A c \in clients_ :
             last_update_'[c] # last_update_[c] =>
               \E q \in Procs : pc[q] = "su_fin" /\ arg[q] = c /\ frame.changed
        /\ ( pc[p] = "st_body" /\ pc'[p] # "st_body"
               /\ last_state_[arg[p]][frame.ts.thread_id] = frame.ts.val ) =>
             ( ~frame'.changed /\ frame'.touched = frame.touched )
        /\ ( SweepOf(p, arg[p]) /\ ~frame.touched ) =>
             LET c == arg[p]
             IN /\ ( active_[c] /\ ~Within(now, last_update_[c], MaxDelay) )
                     => Emits(c, "ALIVE2DEAD", FALSE)
                /\ ~active_[c] => Emits(c, "DEAD", FALSE)
    ]_vars

\* a client still flagged active and past its delay repeats the thread state
\* it sent before
C16_Witness ==
  \E p \in Procs :
    /\ pc[p] = "su_fin"
    /\ ~frame.changed /\ ~frame.touched
    /\ last_state_[arg[p]][frame.ts.thread_id] = 1
    /\ active_[arg[p]]
    /\ now >= last_update_[arg[p]] + MaxDelay

\* C17: the sweep of updateStates(X) sets the flag of every record it visits,
\* X's or another's, to (now - last_update_ < max_delay_sec_) as of the
\* visit, and goes on to dealloc_type for another record Y it finds timed
\* out; when updateStates returns no record is flagged dead while inside its
\* delay, and if the clock has not moved since X's changed heartbeat was
\* stored, the flag of every record in clients_ equals
\* (now - last_update_ < max_delay_sec_).
C17_FullSweep ==
  [][ \A p \in Procs :
        /\ \A c \in clients_ :
             SweepOf(p, c) =>
               /\ active_'[c] = Within(now, last_update_[c], MaxDelay)
               /\ ( c # arg[p] /\ active_[c] /\ ~active_'[c] ) =>
                    pc'[p] = "ty_lock"
        /\ ( pc[p] = "uc_loop" /\ pc'[p] = "idle" ) =>
             \A c \in clients_ :
               /\ ~active_[c] => ~Within(now, last_update_[c], MaxDelay)
               /\ ( frame.touched /\ last_update_[arg[p]] = now ) =>
                    active_[c] = Within(now, last_update_[c], MaxDelay)
    ]_vars

\* X's heartbeat has found another record timed out and is deallocating
\* its type
C17_Witness ==
  \E p \in Procs :
    /\ pc[p] = "ty_body"
    /\ frame.cur # arg[p]
    /\ frame.touched
    /\ frame.status = "ALIVE2DEAD"
    /\ ~active_[frame.cur]

\* C18: an alloc_type() entered with n_ # 0, no type under its ratio and no
\* type under its limit fails its assert instead of returning a type, and
\* num_clients_ and n_ are then as they were.
C18_Exhaustion ==
  [][ \A p \in Procs :
        ( /\ pc[p] = "set_lock" /\ pc'[p] # "set_lock"
          /\ n_ # 0
          /\ RatioShort(num_clients_, n_, ratios) = {}
          /\ LimitShort(num_clients_, limits) = {} ) =>
          /\ pc'[p] = "abort"
          /\ frame'.t \notin Types
          /\ type_' = type_
          /\ num_clients_' = num_clients_
          /\ n_' = n_
    ]_vars

C18_Witness ==
  \E p \in Procs :
    /\ pc[p] = "abort"
    /\ n_ > 0
    /\ RatioShort(num_clients_, n_, ratios) = {}
    /\ LimitShort(num_clients_, limits) = {}
    /\ \E t \in Types : limits[t + 1] > 0

\* C19: num_clients_ of every type and n_ are never negative.
C19_CountsNonNegative ==
  /\ n_ >= 0
  /\ \A t \in Types : num_clients_[t + 1] >= 0

\* C20: a reader that holds the lock of a record and finds active_ set never
\* finds it while the sweep stands between the updateActive() that returned
\* DEAD2ALIVE and the set_type(alloc_type()) that follows, where type_ is
\* still the type given up at the record's death and differs from the one
\* alloc_type() is about to return.
C20_RevivalAtomic ==
  \A q \in Procs :
    ( pc[q] = "acc_body" /\ active_[arg[q]] ) =>
      ~ \E p \in Procs :
          /\ pc[p] = "set_lock"
          /\ frame.cur = arg[q]
          /\ frame.status = "DEAD2ALIVE"
          /\ alloc_type(num_clients_, n_, ratios, limits).t # type_[arg[q]]
====
